---- MODULE Spec2Model ----
(***************************************************************************)
(* Jobby backend: the express/mongoose server of src/index.js and the two  *)
(* earlier revisions of the same file kept in src/unnamed/part_000         *)
(* (lines 1-178, "revA"; lines 180-461, "revB").                           *)
(*                                                                         *)
(* State: the process environment, the start-up phase, the three stores   *)
(* (users, jobs, feedback), the signups that are between their two awaited *)
(* store calls, the wall clock, the token the client holds, and the last      *)
(* HTTP exchange (request and response).                                   *)
(***************************************************************************)
EXTENDS Integers, Sequences, FiniteSets, Bags, TLC

\* ------------------------------------------------------------------ bounds
MaxId == 3
MaxInflight == 2
MaxTime == 1
MaxBatch == 2

\* -------------------------------------------------------- program constants
\* expiresIn: "30d"; the clock counts units of 30 days
ExpiresIn == 1

Revisions == {"index", "revA", "revB"}

Usernames == {"alice", "bob"}
Passwords == {"pw1", "pw2"}
Emails == {"a@x.com", "b@x.com"}
Secrets == {"", "s3cr3t"}
MongoUris == {"", "mongodb://db"}

VARIABLES rev, env, phase, users, jobs, feedback, inflight, nextId, now,
          held, last

vars == <<rev, env, phase, users, jobs, feedback, inflight, nextId, now,
          held, last>>

\* ------------------------------------------------------------------ tokens
NoPayload == [id |-> 0, username |-> "", email |-> "", iat |-> 0, exp |-> 0]

\* HMAC of a payload under a key: equal only for the same key and payload
Hmac(payload, key) == [key |-> key, payload |-> payload]

NoToken == [payload |-> NoPayload, sig |-> Hmac(NoPayload, "")]

\* jwt.sign(payload, secret, { expiresIn: "30d" })
sign(payload, secret) ==
  LET p == [payload EXCEPT !.iat = now, !.exp = now + ExpiresIn]
  IN [payload |-> p, sig |-> Hmac(p, secret)]

\* a verify that checks the signature and not the expiry
verifyOk_NoExpiry(token, secret) ==
  /\ token # NoToken
  /\ secret # ""
  /\ token.sig = Hmac(token.payload, secret)

\* jwt.verify(token, secret) does not throw
verifyOk(token, secret) ==
  /\ token # NoToken
  /\ secret # ""
  /\ token.sig = Hmac(token.payload, secret)
  /\ now < token.payload.exp

\* the authorization header: absent, the raw token, or "Bearer <token>"
NoHeader == [scheme |-> "none", token |-> NoToken]
Raw(t) == [scheme |-> "raw", token |-> t]
Bearer(t) == [scheme |-> "bearer", token |-> t]

\* what the revision hands to verify(): the header itself (index, revA),
\* or token.split(' ')[1] (revB)
HeaderToken(h) ==
  IF rev = "revB"
    THEN (IF h.scheme = "bearer" THEN h.token ELSE NoToken)
    ELSE (IF h.scheme = "raw" THEN h.token ELSE NoToken)

\* --------------------------------------------------------------- passwords
\* bcrypt.hash(password, 10)
BcryptHash(pw) ==
  CASE pw = "pw1" -> "$2a$10$pw1"
    [] pw = "pw2" -> "$2a$10$pw2"
    [] OTHER -> "$2a$10$"

\* bcrypt.compare(password, hash)
BcryptCompare(pw, hash) == hash = BcryptHash(pw)

\* what signup stores as the password
StoredPassword(pw) == IF rev = "revB" THEN BcryptHash(pw) ELSE pw

\* ------------------------------------------------------------- user store
NoUser == [id |-> 0, username |-> "", password |-> "", email |-> ""]

\* ObjectId cast of a request's :id (0 stands for a string that is no ObjectId)
IsObjectId(id) == id >= 1

\* User.findOne({ $or: [{ username }, { email }] })
ExistingUsers(username, email) ==
  {u \in users : u.username = username \/ u.email = email}

\* schema validation at save: username, password, email are required
ValidUser(body) == body.username # "" /\ body.password # "" /\ body.email # ""

\* a user collection without its unique indexes
UniqueKeyFree_NoIndex(body) == TRUE

\* the unique indexes on username and email
UniqueKeyFree(body) ==
  \A u \in users : u.username # body.username /\ u.email # body.email

\* the user record without its password field ({ password: 0 })
WithoutPassword(u) == [u EXCEPT !.password = ""]

\* User.findById, User.findByIdAndDelete
UserById(id) == {u \in users : u.id = id}

\* -------------------------------------------------------------- job store
Titles == {"dev", "qa"}

\* a job object of a request body; title stands for the five required fields
\* (title, job_description, location, employment_type, package_per_annum),
\* "" for one that is missing
JobObjects == [title : Titles \cup {""}]

\* schema validation of one job document
ValidJob(obj) == obj.title # ""

\* the body of POST /api/jobs: one object, or an array of objects
NoPayloadJobs == [isArray |-> FALSE, items |-> <<>>]

\* Job.findById, Job.findByIdAndDelete
JobById(id) == {j \in jobs : j.id = id}

\* ---------------------------------------------------------- feedback store
NoFeedback == [id |-> 0, username |-> "", message |-> "", createdAt |-> 0]

\* the feedback documents matching { _id: new ObjectId(id) }
FeedbackById(id) == {f \in feedback : f.id = id}

\* index.js never binds the name db its feedback handlers use; revB's go
\* through the Feedback model
DbBound == rev # "index"

\* ------------------------------------------------------------ HTTP exchange
NoBody == [username |-> "", password |-> "", email |-> ""]

Exchange(op, status, error) ==
  [seq |-> 1 - last.seq, op |-> op, status |-> status, error |-> error,
   body |-> NoBody, id |-> 0, header |-> NoHeader,
   token |-> NoToken, userId |-> 0, user |-> NoUser, list |-> {},
   payload |-> NoPayloadJobs, docs |-> <<>>, fb |-> NoFeedback, count |-> 0]

\* the request bodies tried: each user name with its own password and either
\* email, and one body that lacks a required field
SignupBodies ==
  {[username |-> "alice", password |-> "pw1", email |-> e] : e \in Emails}
    \cup {[username |-> "bob", password |-> "pw2", email |-> e] : e \in Emails}
    \cup {[username |-> "alice", password |-> "", email |-> "a@x.com"]}

\* -------------------------------------------------------------- start-up
Init ==
  /\ rev \in Revisions
  /\ env \in [MONGO_URI : MongoUris, JWT_SECRET : Secrets]
  /\ phase = "boot"
  /\ users = {}
  /\ jobs = {}
  /\ feedback = {}
  /\ inflight = EmptyBag
  /\ nextId = 1
  /\ now = 0
  /\ held = NoToken
  /\ last = [seq |-> 0, op |-> "none", status |-> 0, error |-> "",
             body |-> NoBody, id |-> 0, header |-> NoHeader,
             token |-> NoToken, userId |-> 0, user |-> NoUser, list |-> {},
             payload |-> NoPayloadJobs, docs |-> <<>>, fb |-> NoFeedback,
             count |-> 0]

\* start-up that goes to connect without testing MONGO_URI
Start_NoUriCheck ==
  /\ phase = "boot"
  /\ phase' = "connecting"
  /\ UNCHANGED <<rev, env, users, jobs, feedback, inflight, nextId, now,
                 held, last>>

\* the module's top level: the MONGO_URI check (absent in revA), then connect
Start ==
  /\ phase = "boot"
  /\ phase' = IF rev # "revA" /\ env.MONGO_URI = "" THEN "exited"
              ELSE "connecting"
  /\ UNCHANGED <<rev, env, users, jobs, feedback, inflight, nextId, now,
                 held, last>>

\* mongoose.connect(...).then: app.listen
ConnectResolved ==
  /\ phase = "connecting"
  /\ env.MONGO_URI # ""
  /\ phase' = "listening"
  /\ UNCHANGED <<rev, env, users, jobs, feedback, inflight, nextId, now,
                 held, last>>

\* mongoose.connect(...).catch: process.exit(1); revA only logs
ConnectRejected ==
  /\ phase = "connecting"
  /\ phase' = IF rev = "revA" THEN "idle" ELSE "exited"
  /\ UNCHANGED <<rev, env, users, jobs, feedback, inflight, nextId, now,
                 held, last>>

\* the wall clock, read by sign, verify and the creation timestamps
Tick ==
  /\ now < MaxTime
  /\ now' = now + 1
  /\ UNCHANGED <<rev, env, phase, users, jobs, feedback, inflight, nextId,
                 held, last>>

\* ------------------------------------------------------------------ signup
\* POST /signup up to its first await: the JWT_SECRET check (absent in revA)
\* and User.findOne
SignupCheck(body, limit) ==
  /\ phase = "listening"
  /\ BagCardinality(inflight) < limit
  /\ IF rev # "revA" /\ env.JWT_SECRET = ""
       THEN /\ last' = [Exchange("signup", 500, "JWT_SECRET is not set")
                          EXCEPT !.body = body]
            /\ UNCHANGED inflight
       ELSE IF ExistingUsers(body.username, body.email) # {}
         THEN /\ last' = [Exchange("signup", 400, "User already exists")
                            EXCEPT !.body = body]
              /\ UNCHANGED inflight
         ELSE /\ inflight' = inflight (+) SetToBag({body})
              /\ UNCHANGED last
  /\ UNCHANGED <<rev, env, phase, users, jobs, feedback, nextId, now, held>>

\* POST /signup from newUser.save() on: validation, the unique indexes, the
\* insert, then sign and the response
SignupSave(body) ==
  /\ phase = "listening"
  /\ BagIn(body, inflight)
  /\ inflight' = inflight (-) SetToBag({body})
  /\ IF ~ValidUser(body) \/ ~UniqueKeyFree(body)
       THEN /\ last' = [Exchange("signup", 500, "Something went wrong")
                          EXCEPT !.body = body]
            /\ UNCHANGED <<users, nextId>>
       ELSE /\ nextId <= MaxId
            /\ users' = users \cup
                 {[id |-> nextId, username |-> body.username,
                   password |-> StoredPassword(body.password),
                   email |-> body.email]}
            /\ nextId' = nextId + 1
            /\ IF env.JWT_SECRET = ""
                 THEN last' = [Exchange("signup", 500, "Something went wrong")
                                 EXCEPT !.body = body]
                 ELSE LET payload ==
                            IF rev = "revB"
                              THEN [NoPayload EXCEPT !.id = nextId,
                                      !.username = body.username,
                                      !.email = body.email]
                              ELSE [NoPayload EXCEPT !.id = nextId]
                          t == sign(payload, env.JWT_SECRET)
                      IN last' = [Exchange("signup", 200, "")
                                    EXCEPT !.body = body, !.token = t]
  /\ UNCHANGED <<rev, env, phase, jobs, feedback, now, held>>

\* ------------------------------------------------------------------- login
\* a lookup by username alone, the password never compared
LoginMatch_AnyPassword(username, password) ==
  {u \in users : u.username = username}

\* User.findOne({ username, password }) (index); User.findOne({ username })
\* followed by bcrypt.compare (revB)
LoginMatch(username, password) ==
  IF rev = "revB"
    THEN {u \in users : u.username = username
                          /\ BcryptCompare(password, u.password)}
    ELSE {u \in users : u.username = username /\ u.password = password}

\* POST /login; revA registers no such route
Login(username, password) ==
  /\ phase = "listening"
  /\ LET body == [NoBody EXCEPT !.username = username, !.password = password]
         found == LoginMatch(username, password)
     IN last' =
          IF rev = "revA"
            THEN [Exchange("login", 404, "Cannot POST /login")
                    EXCEPT !.body = body]
          ELSE IF env.JWT_SECRET = ""
            THEN [Exchange("login", 500, "JWT_SECRET is not set")
                    EXCEPT !.body = body]
          ELSE IF found = {}
            THEN [Exchange("login", 400, "Invalid credentials")
                    EXCEPT !.body = body]
          ELSE LET user == CHOOSE u \in found : TRUE
                   payload ==
                     IF rev = "revB"
                       THEN [NoPayload EXCEPT !.id = user.id,
                               !.username = user.username,
                               !.email = user.email]
                       ELSE [NoPayload EXCEPT !.id = user.id]
               IN [Exchange("login", 200, "")
                     EXCEPT !.body = body,
                            !.token = sign(payload, env.JWT_SECRET)]
  /\ UNCHANGED <<rev, env, phase, users, jobs, feedback, inflight, nextId,
                 now, held>>

\* the client keeps the token of the response it just got
KeepToken ==
  /\ last.token # NoToken
  /\ held # last.token
  /\ held' = last.token
  /\ UNCHANGED <<rev, env, phase, users, jobs, feedback, inflight, nextId,
                 now, last>>

\* --------------------------------------------------------------- protected
\* a token whose payload was altered after signing
Tamper(t) == [t EXCEPT !.payload.exp = t.payload.exp + ExpiresIn]

\* a token signed by someone who does not know the secret
Forge(t) == [t EXCEPT !.sig = Hmac(t.payload, "guess")]

\* the authorization headers a client can send
Headers ==
  LET toks == IF held = NoToken THEN {}
              ELSE {held, Tamper(held), Forge(held)}
  IN {NoHeader} \cup {Raw(t) : t \in toks} \cup {Bearer(t) : t \in toks}

\* GET /protected: index and revA answer with the decoded id; revB's
\* authenticate middleware sets req.userId and the handler looks the user up
Protected(header) ==
  /\ phase = "listening"
  /\ LET token == HeaderToken(header)
     IN last' =
          IF header.scheme = "none"
            THEN [Exchange("protected", 403, "Token missing")
                    EXCEPT !.header = header]
          ELSE IF ~verifyOk(token, env.JWT_SECRET)
            THEN [Exchange("protected", 401, "Invalid token")
                    EXCEPT !.header = header]
          ELSE IF rev # "revB"
            THEN [Exchange("protected", 200, "")
                    EXCEPT !.header = header, !.userId = token.payload.id]
          ELSE IF UserById(token.payload.id) = {}
            THEN [Exchange("protected", 404, "User not found")
                    EXCEPT !.header = header]
          ELSE [Exchange("protected", 200, "")
                  EXCEPT !.header = header,
                         !.user = WithoutPassword(
                            CHOOSE u \in UserById(token.payload.id) : TRUE)]
  /\ UNCHANGED <<rev, env, phase, users, jobs, feedback, inflight, nextId,
                 now, held>>

\* ------------------------------------------------------ user administration
\* GET /all (index, revA), GET /api/users (revB)
ListUsers ==
  /\ phase = "listening"
  /\ last' = [Exchange("listUsers", 200, "") EXCEPT !.list = users]
  /\ UNCHANGED <<rev, env, phase, users, jobs, feedback, inflight, nextId,
                 now, held>>

\* DELETE /users/:id (index, revA), DELETE /api/users/:id (revB)
DeleteUser(id) ==
  /\ phase = "listening"
  /\ IF ~IsObjectId(id)
       THEN /\ last' = [Exchange("deleteUser", 500, "Cast to ObjectId failed")
                          EXCEPT !.id = id]
            /\ UNCHANGED users
       ELSE IF UserById(id) = {}
         THEN /\ last' = [Exchange("deleteUser", 404, "User not found")
                            EXCEPT !.id = id]
              /\ UNCHANGED users
         ELSE /\ last' = [Exchange("deleteUser", 200, "")
                            EXCEPT !.id = id,
                                   !.user = CHOOSE u \in UserById(id) : TRUE]
              /\ users' = users \ UserById(id)
  /\ UNCHANGED <<rev, env, phase, jobs, feedback, inflight, nextId, now,
                 held>>

\* the ids a request can name: every ObjectId in use or not, and a malformed one
RequestIds == 0 .. MaxId + 1

\* -------------------------------------------------------------------- jobs
\* documents that all get the same id
NewJobs_SameId(items) ==
  [i \in 1 .. Len(items) |-> [id |-> nextId, title |-> items[i].title]]

\* the documents Job.insertMany / job.save create, ids assigned in order
NewJobs(items) ==
  [i \in 1 .. Len(items) |-> [id |-> nextId + i - 1, title |-> items[i].title]]

\* POST /api/jobs: an array goes to Job.insertMany, which validates every
\* document before it inserts any; one object goes to new Job(...).save()
CreateJobs(payload) ==
  /\ phase = "listening"
  /\ IF \E i \in 1 .. Len(payload.items) : ~ValidJob(payload.items[i])
       THEN /\ last' = [Exchange("createJobs", 500, "Job validation failed")
                          EXCEPT !.payload = payload]
            /\ UNCHANGED <<jobs, nextId>>
       ELSE /\ nextId + Len(payload.items) - 1 <= MaxId
            /\ jobs' = jobs \cup
                 {NewJobs(payload.items)[i] : i \in 1 .. Len(payload.items)}
            /\ nextId' = nextId + Len(payload.items)
            /\ last' = [Exchange("createJobs", 201, "")
                          EXCEPT !.payload = payload,
                                 !.docs = NewJobs(payload.items)]
  /\ UNCHANGED <<rev, env, phase, users, feedback, inflight, now, held>>

\* the request bodies tried: every single object, every array up to MaxBatch
JobPayloads ==
  {[isArray |-> FALSE, items |-> <<o>>] : o \in JobObjects}
    \cup UNION {{[isArray |-> TRUE, items |-> a] : a \in [1 .. n -> JobObjects]}
                 : n \in 0 .. MaxBatch}

\* GET /api/jobs: the overview projection (index, revB) or whole records (revA)
ListJobs ==
  /\ phase = "listening"
  /\ last' = [Exchange("listJobs", 200, "") EXCEPT !.list = jobs]
  /\ UNCHANGED <<rev, env, phase, users, jobs, feedback, inflight, nextId,
                 now, held>>

\* GET /api/jobs/:id; revA registers no such route
GetJob(id) ==
  /\ phase = "listening"
  /\ last' =
       IF rev = "revA"
         THEN [Exchange("getJob", 404, "Cannot GET /api/jobs/:id")
                 EXCEPT !.id = id]
       ELSE IF ~IsObjectId(id)
         THEN [Exchange("getJob", 500, "Cast to ObjectId failed")
                 EXCEPT !.id = id]
       ELSE IF JobById(id) = {}
         THEN [Exchange("getJob", 404, "Job not found") EXCEPT !.id = id]
       ELSE [Exchange("getJob", 200, "")
               EXCEPT !.id = id, !.docs = <<CHOOSE j \in JobById(id) : TRUE>>]
  /\ UNCHANGED <<rev, env, phase, users, jobs, feedback, inflight, nextId,
                 now, held>>

\* DELETE /api/jobs/:id
DeleteJob(id) ==
  /\ phase = "listening"
  /\ IF ~IsObjectId(id)
       THEN /\ last' = [Exchange("deleteJob", 500, "Cast to ObjectId failed")
                          EXCEPT !.id = id]
            /\ UNCHANGED jobs
       ELSE IF JobById(id) = {}
         THEN /\ last' = [Exchange("deleteJob", 404, "Job not found")
                            EXCEPT !.id = id]
              /\ UNCHANGED jobs
         ELSE /\ last' = [Exchange("deleteJob", 200, "")
                            EXCEPT !.id = id,
                                   !.docs = <<CHOOSE j \in JobById(id) : TRUE>>]
              /\ jobs' = jobs \ JobById(id)
  /\ UNCHANGED <<rev, env, phase, users, feedback, inflight, nextId, now,
                 held>>

\* DELETE /api/jobs; revA registers no such route
DeleteAllJobs ==
  /\ phase = "listening"
  /\ IF rev = "revA"
       THEN /\ last' = Exchange("deleteAllJobs", 404, "Cannot DELETE /api/jobs")
            /\ UNCHANGED jobs
       ELSE /\ last' = [Exchange("deleteAllJobs", 200, "")
                          EXCEPT !.count = Cardinality(jobs)]
            /\ jobs' = {}
  /\ UNCHANGED <<rev, env, phase, users, feedback, inflight, nextId, now,
                 held>>

\* ---------------------------------------------------------------- feedback
FeedbackNames == {"", "alice"}
FeedbackMessages == {"", " ", "good"}

\* a check that tests the username and not the message
MissingFields_UsernameOnly(username, message) == username = ""

\* if (!username || !message)
MissingFields(username, message) == username = "" \/ message = ""

\* the request as the exchange records it: username and message of the body
FeedbackRequest(username, message) ==
  [NoFeedback EXCEPT !.username = username, !.message = message]

\* POST /feedback (index), POST /api/feedback (revB); revA has no feedback
\* routes.  The check of username and message comes first; index.js then
\* evaluates db, revB saves a Feedback document stamped by the store.
PostFeedback(username, message) ==
  /\ phase = "listening"
  /\ LET req == FeedbackRequest(username, message)
     IN IF rev = "revA"
          THEN /\ last' = [Exchange("postFeedback", 404, "Cannot POST /feedback")
                             EXCEPT !.fb = req]
               /\ UNCHANGED <<feedback, nextId>>
          ELSE IF MissingFields(username, message)
            THEN /\ last' = [Exchange("postFeedback", 400,
                                      "Username and message are required")
                               EXCEPT !.fb = req]
                 /\ UNCHANGED <<feedback, nextId>>
            ELSE IF ~DbBound
              THEN /\ last' = [Exchange("postFeedback", 500,
                                        "Failed to submit feedback")
                                 EXCEPT !.fb = req]
                   /\ UNCHANGED <<feedback, nextId>>
              ELSE /\ nextId <= MaxId
                   /\ LET doc == [id |-> nextId, username |-> username,
                                  message |-> message, createdAt |-> now]
                      IN /\ feedback' = feedback \cup {doc}
                         /\ last' = [Exchange("postFeedback", 201, "")
                                       EXCEPT !.fb = req, !.docs = <<doc>>]
                   /\ nextId' = nextId + 1
  /\ UNCHANGED <<rev, env, phase, users, jobs, inflight, now, held>>

\* GET /feedback (index), GET /api/feedback (revB)
ListFeedback ==
  /\ phase = "listening"
  /\ last' =
       IF rev = "revA"
         THEN Exchange("listFeedback", 404, "Cannot GET /feedback")
       ELSE IF ~DbBound
         THEN Exchange("listFeedback", 500, "Failed to fetch feedback")
       ELSE [Exchange("listFeedback", 200, "") EXCEPT !.list = feedback]
  /\ UNCHANGED <<rev, env, phase, users, jobs, feedback, inflight, nextId,
                 now, held>>

\* GET /feedback/:id, a route of index.js alone
GetFeedback(id) ==
  /\ phase = "listening"
  /\ last' =
       IF rev # "index"
         THEN [Exchange("getFeedback", 404, "Cannot GET /feedback/:id")
                 EXCEPT !.id = id]
       ELSE IF ~DbBound \/ ~IsObjectId(id)
         THEN [Exchange("getFeedback", 500, "Failed to fetch feedback")
                 EXCEPT !.id = id]
       ELSE IF FeedbackById(id) = {}
         THEN [Exchange("getFeedback", 404, "Feedback not found")
                 EXCEPT !.id = id]
       ELSE [Exchange("getFeedback", 200, "")
               EXCEPT !.id = id,
                      !.docs = <<CHOOSE f \in FeedbackById(id) : TRUE>>]
  /\ UNCHANGED <<rev, env, phase, users, jobs, feedback, inflight, nextId,
                 now, held>>

\* PUT /feedback/:id, a route of index.js alone: $set of the body's message
UpdateFeedback(id, message) ==
  /\ phase = "listening"
  /\ LET req == [FeedbackRequest("", message) EXCEPT !.id = id]
     IN IF rev # "index"
          THEN /\ last' = [Exchange("updateFeedback", 404,
                                    "Cannot PUT /feedback/:id")
                             EXCEPT !.id = id, !.fb = req]
               /\ UNCHANGED feedback
          ELSE IF ~DbBound \/ ~IsObjectId(id)
            THEN /\ last' = [Exchange("updateFeedback", 500,
                                      "Failed to update feedback")
                               EXCEPT !.id = id, !.fb = req]
                 /\ UNCHANGED feedback
            ELSE IF FeedbackById(id) = {}
              THEN /\ last' = [Exchange("updateFeedback", 404,
                                        "Feedback not found")
                                 EXCEPT !.id = id, !.fb = req]
                   /\ UNCHANGED feedback
              ELSE /\ last' = [Exchange("updateFeedback", 200, "")
                                 EXCEPT !.id = id, !.fb = req]
                   /\ feedback' =
                        {IF f.id = id THEN [f EXCEPT !.message = message]
                         ELSE f : f \in feedback}
  /\ UNCHANGED <<rev, env, phase, users, jobs, inflight, nextId, now, held>>

\* DELETE /feedback/:id (index), DELETE /api/feedback/:id (revB)
DeleteFeedback(id) ==
  /\ phase = "listening"
  /\ IF rev = "revA"
       THEN /\ last' = [Exchange("deleteFeedback", 404,
                                 "Cannot DELETE /feedback/:id")
                          EXCEPT !.id = id]
            /\ UNCHANGED feedback
       ELSE IF ~DbBound \/ ~IsObjectId(id)
         THEN /\ last' = [Exchange("deleteFeedback", 500,
                                   "Failed to delete feedback")
                            EXCEPT !.id = id]
              /\ UNCHANGED feedback
         ELSE IF FeedbackById(id) = {}
           THEN /\ last' = [Exchange("deleteFeedback", 404,
                                     "Feedback not found")
                              EXCEPT !.id = id]
                /\ UNCHANGED feedback
           ELSE /\ last' = [Exchange("deleteFeedback", 200, "")
                              EXCEPT !.id = id,
                                     !.docs = <<CHOOSE f \in FeedbackById(id)
                                                  : TRUE>>]
                /\ feedback' = feedback \ FeedbackById(id)
  /\ UNCHANGED <<rev, env, phase, users, jobs, inflight, nextId, now, held>>

\* DELETE /api/feedback, a route of revB alone
DeleteAllFeedback ==
  /\ phase = "listening"
  /\ IF rev # "revB"
       THEN /\ last' = Exchange("deleteAllFeedback", 404,
                                "Cannot DELETE /feedback")
            /\ UNCHANGED feedback
       ELSE /\ last' = [Exchange("deleteAllFeedback", 200, "")
                          EXCEPT !.count = Cardinality(feedback)]
            /\ feedback' = {}
  /\ UNCHANGED <<rev, env, phase, users, jobs, inflight, nextId, now, held>>

\* signups racing one another and the deletion of users
NextAuth ==
  \/ Start
  \/ ConnectResolved
  \/ ConnectRejected
  \/ \E body \in SignupBodies : SignupCheck(body, MaxInflight)
  \/ \E body \in SignupBodies : SignupSave(body)
  \/ ListUsers
  \/ \E id \in RequestIds : DeleteUser(id)

SpecAuth == Init /\ [][NextAuth]_vars

\* sessions: one signup at a time, login, the token's life, GET /protected
NextSession ==
  \/ Start
  \/ ConnectResolved
  \/ ConnectRejected
  \/ Tick
  \/ \E body \in SignupBodies : SignupCheck(body, 1)
  \/ \E body \in SignupBodies : SignupSave(body)
  \/ \E u \in Usernames, p \in Passwords : Login(u, p)
  \/ KeepToken
  \/ \E h \in Headers : Protected(h)
  \/ \E id \in RequestIds : DeleteUser(id)

SpecSession == Init /\ [][NextSession]_vars

NextJobs ==
  \/ Start
  \/ ConnectResolved
  \/ ConnectRejected
  \/ \E payload \in JobPayloads : CreateJobs(payload)
  \/ ListJobs
  \/ \E id \in RequestIds : GetJob(id)
  \/ \E id \in RequestIds : DeleteJob(id)
  \/ DeleteAllJobs

SpecJobs == Init /\ [][NextJobs]_vars

NextFeedback ==
  \/ Start
  \/ ConnectResolved
  \/ ConnectRejected
  \/ Tick
  \/ \E u \in FeedbackNames, m \in FeedbackMessages : PostFeedback(u, m)
  \/ ListFeedback
  \/ \E id \in RequestIds : GetFeedback(id)
  \/ \E id \in RequestIds, m \in FeedbackMessages : UpdateFeedback(id, m)
  \/ \E id \in RequestIds : DeleteFeedback(id)
  \/ DeleteAllFeedback

SpecFeedback == Init /\ [][NextFeedback]_vars

\* the three stores side by side: creation and deletion by id in each
NextStores ==
  \/ Start
  \/ ConnectResolved
  \/ ConnectRejected
  \/ \E body \in SignupBodies : SignupCheck(body, 1)
  \/ \E body \in SignupBodies : SignupSave(body)
  \/ \E payload \in JobPayloads : CreateJobs(payload)
  \/ \E u \in FeedbackNames, m \in FeedbackMessages : PostFeedback(u, m)
  \/ \E id \in RequestIds : DeleteUser(id)
  \/ \E id \in RequestIds : DeleteJob(id)
  \/ \E id \in RequestIds : DeleteFeedback(id)

SpecStores == Init /\ [][NextStores]_vars

\* ----------------------------------------------------------- store failures
\* err.message of a store operation that rejects (server unreachable, timeout)
StoreDown == "store unavailable"

\* the handlers of the revision that await the user, job or feedback store;
\* the feedback handlers of index.js throw on db before any store call
AwaitsStore ==
  CASE rev = "index" ->
         {"signup", "login", "listUsers", "deleteUser", "createJobs",
          "listJobs", "getJob", "deleteJob", "deleteAllJobs"}
    [] rev = "revA" ->
         {"signup", "listUsers", "deleteUser", "createJobs", "listJobs",
          "deleteJob"}
    [] rev = "revB" ->
         {"signup", "login", "protected", "listUsers", "deleteUser",
          "createJobs", "listJobs", "getJob", "deleteJob", "deleteAllJobs",
          "postFeedback", "listFeedback", "deleteFeedback",
          "deleteAllFeedback"}

\* the error member of the body a handler's catch block sends
CatchError(op) ==
  CASE op \in {"signup", "login"} -> "Something went wrong"
    [] op = "listUsers" ->
         IF rev = "revB" THEN StoreDown ELSE "Something went wrong"
    [] op = "deleteUser" ->
         IF rev = "revB" THEN StoreDown ELSE "Failed to delete user"
    [] OTHER -> StoreDown

\* a handler without try/catch: the rejection ends the process
AfterCatch_Rethrow == "exited"

\* every handler wraps its awaits in try/catch; the catch block answers and
\* returns, so the process goes on listening
AfterCatch == "listening"

\* a request whose first store call rejects: the handler's catch block answers
\* 500.  POST /signup and POST /login of index.js and revB get to the store
\* only with JWT_SECRET set, revB's GET /protected only with a token that
\* verifies.
StoreRejects(op) ==
  /\ phase = "listening"
  /\ op \in AwaitsStore
  /\ op \in {"signup", "login"} => rev = "revA" \/ env.JWT_SECRET # ""
  /\ op = "protected" => verifyOk(held, env.JWT_SECRET)
  /\ last' = IF op = "protected"
               THEN [Exchange(op, 500, CatchError(op))
                       EXCEPT !.header = Bearer(held)]
               ELSE Exchange(op, 500, CatchError(op))
  /\ phase' = AfterCatch
  /\ UNCHANGED <<rev, env, users, jobs, feedback, inflight, nextId, now,
                 held>>

\* POST /signup whose newUser.save() (or, in revB, bcrypt.hash) rejects
SignupSaveRejects(body) ==
  /\ phase = "listening"
  /\ BagIn(body, inflight)
  /\ inflight' = inflight (-) SetToBag({body})
  /\ last' = [Exchange("signup", 500, CatchError("signup"))
                EXCEPT !.body = body]
  /\ phase' = AfterCatch
  /\ UNCHANGED <<rev, env, users, jobs, feedback, nextId, now, held>>

\* the handlers whose store call is made to reject: one of each store, and
\* the one behind the authenticate middleware
RejectedOps == {"signup", "protected", "listJobs", "listFeedback"}

\* requests served while store calls may reject, two signups at a time
NextServe ==
  \/ Start
  \/ ConnectResolved
  \/ ConnectRejected
  \/ \E body \in SignupBodies : SignupCheck(body, 2)
  \/ \E body \in SignupBodies : SignupSave(body)
  \/ \E body \in SignupBodies : SignupSaveRejects(body)
  \/ \E op \in AwaitsStore \cap RejectedOps : StoreRejects(op)
  \/ KeepToken
  \/ \E h \in Headers : Protected(h)
  \/ ListFeedback

\* the store settles every call it was handed, and the event loop then
\* resumes the handler that awaits it
SpecServe ==
  /\ Init
  /\ [][NextServe]_vars
  /\ \A body \in SignupBodies :
       WF_vars(SignupSave(body) \/ SignupSaveRejects(body))

\* ------------------------------------------------------------------ claims
\* a step that answers a request: every handler flips the exchange's seq
Answers(op) == last'.seq # last.seq /\ last'.op = op

\* C1: in every interleaving of POST /signup requests, a signup whose
\* username or email is that of a user in the store when it is answered gets
\* 400 "User already exists" and adds no user record.
C1_SignupConflict ==
  [][(Answers("signup")
        /\ \E u \in users : u.username = last'.body.username
                             \/ u.email = last'.body.email)
      => (last'.status = 400 /\ last'.error = "User already exists"
            /\ users' = users)]_vars

\* C2: after any interleaving of signup and deleteUser requests no two stored
\* user records share a username and no two share an email.
C2_UsersUnique ==
  \A u, v \in users :
    (u.username = v.username \/ u.email = v.email) => u = v

\* a signup that passed the existence check and was then refused by the
\* unique index, with another user in the store beside the one it collided with
C2_Witness ==
  /\ last.op = "signup" /\ last.status = 500
  /\ env.JWT_SECRET # ""
  /\ last.body.password # ""
  /\ \E u \in users : u.username = last.body.username
  /\ Cardinality(users) = 2

\* the authorization header that carries token t the way the revision reads it
Presents(t) == IF rev = "revB" THEN Bearer(t) ELSE Raw(t)

\* the user id a GET /protected response resolves to: userId (index, revA) or
\* the _id of the returned record (revB)
ResolvedId(x) == IF rev = "revB" THEN x.user.id ELSE x.userId

\* C3: the token of a successful signup or login, presented to GET /protected
\* at once, is accepted and resolves to the id of the user that signup
\* created or login matched; a token that is expired or whose signature does
\* not verify under JWT_SECRET gets 401, and a missing token is not accepted.
C3_TokenRoundTrip ==
  [][Answers("protected") =>
       /\ (/\ last.op \in {"signup", "login"}
           /\ last.status = 200
           /\ now = last.token.payload.iat
           /\ last'.header = Presents(last.token))
          => /\ last'.status = 200
             /\ \E u \in users : /\ u.username = last.body.username
                                  /\ ResolvedId(last') = u.id
       /\ (/\ last'.header.scheme # "none"
           /\ \/ now >= last'.header.token.payload.exp
              \/ last'.header.token.sig
                   # Hmac(last'.header.token.payload, env.JWT_SECRET))
          => last'.status = 401
       /\ last'.header.scheme = "none" => last'.status = 403]_vars

\* the token a signup or login just issued was presented before the clock
\* moved and resolved to a stored user
C3_Witness ==
  /\ last.op = "protected" /\ last.status = 200
  /\ last.header = Presents(held)
  /\ now = held.payload.iat
  /\ ResolvedId(last) \in {u.id : u \in users}

\* the ids of the documents of a response
DocIds(docs) == {docs[i].id : i \in 1 .. Len(docs)}

\* C4: POST /api/jobs with an array of N valid job objects answers 201 and
\* adds exactly N records, each with its own fresh id; one valid object adds
\* exactly one; no stored job is changed or removed; GET /api/jobs/:id returns
\* the stored job of that id and GET /api/jobs lists every stored job.
C4_CreateJobs ==
  [][/\ (Answers("createJobs")
          /\ \A i \in 1 .. Len(last'.payload.items) :
                last'.payload.items[i].title # "")
         => /\ last'.status = 201
            /\ Len(last'.docs) = Len(last'.payload.items)
            /\ ~last'.payload.isArray => Len(last'.docs) = 1
            /\ Cardinality(DocIds(last'.docs)) = Len(last'.docs)
            /\ DocIds(last'.docs) \cap {j.id : j \in jobs} = {}
            /\ \A i \in 1 .. Len(last'.docs) :
                 last'.docs[i].title = last'.payload.items[i].title
            /\ jobs' = jobs \cup {last'.docs[i] : i \in 1 .. Len(last'.docs)}
            /\ Cardinality(jobs') = Cardinality(jobs) + Len(last'.payload.items)
     /\ (Answers("getJob") /\ rev # "revA"
          /\ \E j \in jobs : j.id = last'.id)
         => /\ last'.status = 200
            /\ Len(last'.docs) = 1
            /\ last'.docs[1] \in jobs
            /\ last'.docs[1].id = last'.id
     /\ Answers("listJobs") => last'.status = 200 /\ last'.list = jobs]_vars

\* an array of two valid jobs was added to a store that already held a job
C4_Witness ==
  /\ last.op = "createJobs" /\ last.status = 201
  /\ last.payload.isArray
  /\ Len(last.docs) = 2
  /\ Cardinality(jobs) = 3

\* C5: in each of the three stores, a delete-by-id request whose id is a
\* well-formed identifier matching no stored record is answered 404 and
\* leaves all three stores as they were.
C5_DeleteMissing ==
  [][/\ (Answers("deleteUser") /\ IsObjectId(last'.id)
          /\ ~\E u \in users : u.id = last'.id)
         => last'.status = 404 /\ UNCHANGED <<users, jobs, feedback>>
     /\ (Answers("deleteJob") /\ IsObjectId(last'.id)
          /\ ~\E j \in jobs : j.id = last'.id)
         => last'.status = 404 /\ UNCHANGED <<users, jobs, feedback>>
     /\ (Answers("deleteFeedback") /\ IsObjectId(last'.id)
          /\ ~\E f \in feedback : f.id = last'.id)
         => last'.status = 404 /\ UNCHANGED <<users, jobs, feedback>>]_vars

\* C6: a feedback-creation request whose message is absent or empty is
\* answered 400 whatever its username, and stores no feedback record
\* (POST /feedback of index.js, POST /api/feedback of revB).
C6_EmptyMessage ==
  [][(Answers("postFeedback") /\ rev # "revA" /\ last'.fb.message = "")
      => last'.status = 400 /\ feedback' = feedback]_vars

\* a request with a username and no message was refused while the store held
\* a record
C6_Witness ==
  /\ last.op = "postFeedback" /\ last.status = 400
  /\ last.fb.username # "" /\ last.fb.message = ""
  /\ feedback # {}

\* C7: a feedback-creation request with a non-blank username and message
\* stores exactly one new record carrying that username, that message and a
\* creation timestamp and answers 201; every list-feedback request returns
\* the records stored at that time.
C7_FeedbackStored ==
  [][/\ (Answers("postFeedback") /\ rev # "revA"
          /\ last'.fb.username = "alice" /\ last'.fb.message = "good")
         => /\ last'.status = 201
            /\ \E f \in feedback' \ feedback :
                 /\ feedback' = feedback \cup {f}
                 /\ f.username = "alice" /\ f.message = "good"
                 /\ f.createdAt = now
     /\ (Answers("listFeedback") /\ rev # "revA")
         => last'.status = 200 /\ last'.list = feedback]_vars

\* C8: GET /protected with a valid token whose user has been deleted answers
\* 404 and returns no user data.
C8_DeletedUser ==
  [][(Answers("protected")
        /\ last'.header = Presents(held)
        /\ held.sig = Hmac(held.payload, env.JWT_SECRET)
        /\ env.JWT_SECRET # ""
        /\ now < held.payload.exp
        /\ ~\E u \in users : u.id = held.payload.id)
      => /\ last'.status = 404
         /\ last'.userId = 0
         /\ last'.user = NoUser]_vars

\* the password the signup requests carry for a user name
SignupPassword(username) == IF username = "alice" THEN "pw1" ELSE "pw2"

\* a user of that name is stored and the password is the one it signed up with
Registered(username, password) ==
  /\ \E u \in users : u.username = username
  /\ password = SignupPassword(username)

\* C9 as stated: POST /login returns a token if and only if the store holds a
\* user of that name whose credential matches the password, and otherwise
\* answers 400 without a token; it never changes the user store.
C9_LoginOriginal ==
  [][(Answers("login") /\ rev # "revA")
      => /\ users' = users
         /\ IF Registered(last'.body.username, last'.body.password)
              THEN last'.status = 200 /\ last'.token # NoToken
              ELSE last'.status = 400 /\ last'.token = NoToken]_vars

\* C9 amended: with JWT_SECRET set, POST /login returns a token if and only
\* if the store holds a user of that name whose credential matches the
\* password, and otherwise answers 400 without a token; with JWT_SECRET unset
\* it answers 500 without a token; it never changes the user store.
C9_Login ==
  [][(Answers("login") /\ rev # "revA")
      => /\ users' = users
         /\ IF env.JWT_SECRET = ""
              THEN last'.status = 500 /\ last'.token = NoToken
              ELSE IF Registered(last'.body.username, last'.body.password)
                THEN /\ last'.status = 200
                     /\ last'.token.sig
                          = Hmac(last'.token.payload, env.JWT_SECRET)
                     /\ \E u \in users :
                          /\ u.username = last'.body.username
                          /\ last'.token.payload.id = u.id
                ELSE last'.status = 400 /\ last'.token = NoToken]_vars

\* a user who signed up logged in, while another stored user has been deleted
\* since the store was empty
C9_Witness ==
  /\ last.op = "login" /\ last.status = 200
  /\ Registered(last.body.username, last.body.password)
  /\ nextId > Cardinality(users) + 1

\* C10 as stated: the server listens only if both MONGO_URI and JWT_SECRET are
\* configured.
C10_ListenOriginal ==
  phase = "listening" => env.MONGO_URI # "" /\ env.JWT_SECRET # ""

\* C10 amended: the server listens only if MONGO_URI is configured; when it is
\* missing, start-up of index.js and revB terminates the process before any
\* connection attempt, and revA never gets past its failed attempt.
C10_Listen ==
  /\ phase = "listening" => env.MONGO_URI # ""
  /\ env.MONGO_URI = "" =>
       IF rev = "revA" THEN phase \in {"boot", "connecting", "idle"}
       ELSE phase \in {"boot", "exited"}

\* start-up without MONGO_URI has terminated the process
C10_Witness ==
  /\ env.MONGO_URI = "" /\ env.JWT_SECRET # ""
  /\ rev = "index"
  /\ phase = "exited"

\* C11: while JWT_SECRET is unset, every POST /signup is answered 500 without a
\* token and leaves the user store as it was, so a signup answered with an
\* error leaves no user record behind.
C11_SecretUnset ==
  [][(Answers("signup") /\ env.JWT_SECRET = "") =>
       /\ last'.status = 500
       /\ last'.token = NoToken
       /\ users' = users]_vars

\* a step in which a store call rejects, the insert of a signup is refused, the
\* token presented to GET /protected does not verify, or a feedback handler
\* of index.js evaluates db
Fails ==
  \/ \E op \in AwaitsStore : StoreRejects(op)
  \/ \E body \in SignupBodies : SignupSaveRejects(body)
  \/ /\ Answers("signup")
     /\ BagCardinality(inflight') < BagCardinality(inflight)
     /\ users' = users
  \/ /\ Answers("protected")
     /\ last'.header # NoHeader
     /\ ~verifyOk(HeaderToken(last'.header), env.JWT_SECRET)
  \/ Answers("listFeedback") /\ ~DbBound

\* the latest response is that of a POST /signup with this body which got as
\* far as newUser.save()
SaveAnswered(body) ==
  /\ last.op = "signup" /\ last.body = body
  /\ last.status = 200 \/ last.error = "Something went wrong"

\* C12: every request a listening server accepted is answered, and answered
\* once (a signup waiting for the store is answered in the end, and leaves the
\* pending requests with exactly one response; every other handler answers in
\* its own step);
\* a failing store call, token verification or collection handle is answered
\* with a 4xx/5xx status and an error body; and no step of a listening server
\* ends the process.
C12_Serves ==
  /\ [][/\ Fails =>
            /\ last'.seq # last.seq
            /\ last'.status \in 400 .. 599
            /\ last'.error # ""
        /\ phase = "listening" => phase' = "listening"
        /\ \/ inflight' = inflight
           \/ /\ BagCardinality(inflight') = BagCardinality(inflight) + 1
              /\ last' = last
           \/ /\ Answers("signup")
              /\ BagIn(last'.body, inflight)
              /\ inflight' = inflight (-) SetToBag({last'.body})]_vars
  /\ \A body \in SignupBodies :
       (BagIn(body, inflight) /\ ~SaveAnswered(body)) ~> SaveAnswered(body)

\* a store call that rejected was answered 500 by a server that holds a user,
\* has a signup waiting for the store, and goes on listening
C12_Witness ==
  /\ last.status = 500 /\ last.error = StoreDown
  /\ users # {}
  /\ inflight # EmptyBag
  /\ phase = "listening"

\* C13: the server enters the listening state only from a connection attempt
\* that was established; a connection attempt that fails terminates the
\* process, which never listens afterwards; and no handler touches a store or
\* answers a request unless the server is listening.
C13_ListenAfterConnect ==
  [][/\ (phase # "listening" /\ phase' = "listening") =>
          phase = "connecting" /\ env.MONGO_URI # ""
     /\ (phase = "connecting" /\ phase' \notin {"connecting", "listening"}) =>
          phase' = "exited"
     /\ phase = "exited" => phase' = "exited"
     /\ <<users, jobs, feedback, inflight, last>>' #
          <<users, jobs, feedback, inflight, last>> =>
          phase = "listening"]_vars

====
